---- MODULE Spec2Model ----
(***************************************************************************)
(* Model of zhangjunfang/rpc:                                              *)
(*   - the goroutine worker pool: the per-worker wrapper (workerWrapper,   *)
(*     Loop/Open/Close/Join/Interrupt) and the pool manager built on it;   *)
(*   - the tcp connection pool (channelPool, PoolConn).                    *)
(* The wrapper and the connection pool are translated from their sources.  *)
(* The pool manager (Open, SendWork, SendWorkTimed, SendWorkAsync, Close)  *)
(* has no source file and is modelled from its design description; those   *)
(* definitions say so in their comments.                                   *)
(*                                                                         *)
(* Unbuffered channels are modelled as rendezvous: a send and the matching *)
(* receive are one step that moves both goroutines.                        *)
(***************************************************************************)
EXTENDS Integers, Sequences, FiniteSets, TLC

\* ---- bounds ----
NumWorkers == 2
NumCallers == 2
SeqCalls == 2
MaxCap == 2
MaxConns == 3

Workers == 1..NumWorkers
Callers == 1..NumCallers
NoVal == -1

VARIABLES
  \* workerWrapper fields and the position of its Loop goroutine
  wpc,          \* position of Loop()
  poolOpen,     \* wrapper.poolOpen (uint32 0/1)
  jobClosed,    \* close(jobChan) has happened
  readyClosed,  \* close(readyChan) has happened
  outputClosed, \* close(outputChan) has happened
  data,         \* the loop variable data: the job received from jobChan, then
                \* its result until it has been received from outputChan
  \* the worker behind the wrapper
  wkind,        \* which GoroutineWorker implementation
  ready,        \* dummyWorker.ready: value of the last Ready(), cleared by Job
  brokeOut,     \* the loop left polling through break (poolOpen == 0)
  jobLock,      \* dummyExtIntWorker.jobLock is held
  jobCount,     \* number of Job invocations
  initCount,    \* number of Initialize invocations
  termCount,    \* number of Terminate invocations
  intrCount,    \* number of Interrupt invocations forwarded to the worker
  \* pool manager
  size,         \* number of wrappers the pool was constructed with
  mgr,          \* "new", "running", "closed"
  lpc, lidx,    \* position of the goroutine that calls Open and Close
  readyOpen,    \* Join's local readyOpen
  pending,      \* pending async jobs counter
  drain,        \* per wrapper: the goroutine that discards a late result
  panicked,     \* a goroutine panicked (the process is gone)
  \* callers of SendWork / SendWorkTimed / SendWorkAsync
  cpc, ckind, cin, cw, cres, cerr, ncalls,
  \* tcp connection pool
  connsNil,     \* c.conns == nil
  factoryNil,   \* c.factory == nil
  chanBuf,      \* contents of the buffered channel conns
  chanClosed,   \* close(conns) has happened
  closedConns,  \* connections on which Close() was called
  nextConn,     \* next connection the factory creates
  held,         \* PoolConn values handed out and not yet returned
  gpc,          \* position of a caller of Get
  kpc,          \* channelPool.Close in progress
  lastOp        \* the last completed connection-pool operation and its outcome

wrapVars == <<wpc, poolOpen, jobClosed, readyClosed, outputClosed, data>>
workerVars == <<wkind, ready, brokeOut, jobLock, jobCount, initCount, termCount, intrCount>>
mgrVars == <<size, mgr, lpc, lidx, readyOpen, pending, drain, panicked>>
callVars == <<cpc, ckind, cin, cw, cres, cerr, ncalls>>
poolVars == <<wrapVars, workerVars, mgrVars, callVars>>
connVars == <<connsNil, factoryNil, chanBuf, chanClosed, closedConns, nextConn,
              held, gpc, kpc, lastOp>>
vars == <<poolVars, connVars>>

\* ------------------------------------------------------------------------
\* Workers.  "fn" is the function worker of CreatePool (Ready always true,
\* Job applies the function, here doubling); "never" is a worker whose Ready
\* never returns true; "ext" is an extended worker (Initialize, Terminate)
\* such as dummyExtWorker, whose Ready may return either value and whose Job
\* returns its input; "extint" is dummyExtIntWorker.
\* ------------------------------------------------------------------------
\* the wrong capability is asserted
IsExtendedMut(w) == wkind[w] = "extint"

\* _, ok := wrapper.worker.(GoroutineExtendedWorker)
IsExtended(w) == wkind[w] \in {"ext", "extint"}

\* the capability is not recognised
IsInterruptableMut(w) == FALSE

\* _, ok := wrapper.worker.(GoroutineInterruptable)
IsInterruptable(w) == wkind[w] = "extint"

ReadyReturns(w) ==
  CASE wkind[w] = "ext" -> {TRUE, FALSE}
    [] wkind[w] = "never" -> {FALSE}
    [] OTHER -> {TRUE}

\* dummyExtIntWorker.Ready takes jobLock and keeps it; the others do not block
ReadyCanRun(w) == wkind[w] = "extint" => ~jobLock[w]

\* Job does not wait for the lock
JobCanRunMut(w) == TRUE

\* dummyExtIntWorker.Job does jobLock.Lock(); jobLock.Unlock() first
JobCanRun(w) == wkind[w] = "extint" => ~jobLock[w]

JobResult(w, x) == IF wkind[w] = "fn" THEN 2 * x ELSE x

\* ------------------------------------------------------------------------
\* workerWrapper.Loop
\* ------------------------------------------------------------------------
Polling == {"warm", "poll"}
Checking == {"warmChk", "pollChk"}
Signalling == {"sig1", "sig2"}

\* no ready signal is sent after a job
AfterPollMut(p) == IF p \in {"warm", "warmChk"} THEN "sig1" ELSE "recv"

\* where the loop goes when it leaves a readiness polling: the ready send that
\* follows it
AfterPoll(p) == IF p \in {"warm", "warmChk"} THEN "sig1" ELSE "sig2"

\* the comparison is inverted
SeesClosedMut(w) == poolOpen[w] = 1

\* the polling loop gives up after one failed Ready()
SeesClosedAlways(w) == TRUE

\* atomic.LoadUint32(&wrapper.poolOpen) == 0
SeesClosed(w) == poolOpen[w] = 0

\* for !wrapper.worker.Ready() { ... }: one call of Ready()
LoopReady(w) ==
  /\ ~panicked
  /\ wpc[w] \in Polling
  /\ ReadyCanRun(w)
  /\ \E r \in ReadyReturns(w) :
       /\ ready' = [ready EXCEPT ![w] = r]
       /\ wpc' = [wpc EXCEPT ![w] = IF r THEN AfterPoll(wpc[w])
                                   ELSE IF wpc[w] = "warm" THEN "warmChk" ELSE "pollChk"]
  /\ jobLock' = [jobLock EXCEPT ![w] = IF wkind[w] = "extint" THEN TRUE ELSE @]
  /\ UNCHANGED <<poolOpen, jobClosed, readyClosed, outputClosed, data>>
  /\ UNCHANGED <<wkind, brokeOut, jobCount, initCount, termCount, intrCount>>
  /\ UNCHANGED <<mgrVars, callVars, connVars>>

\* the body of the polling loop: break when the wrapper is closed, else sleep
LoopCheck(w) ==
  /\ ~panicked
  /\ wpc[w] \in Checking
  /\ IF SeesClosed(w)
       THEN /\ wpc' = [wpc EXCEPT ![w] = AfterPoll(wpc[w])]
            /\ brokeOut' = [brokeOut EXCEPT ![w] = TRUE]
       ELSE /\ wpc' = [wpc EXCEPT ![w] = IF wpc[w] = "warmChk" THEN "warm" ELSE "poll"]
            /\ UNCHANGED brokeOut
  /\ UNCHANGED <<poolOpen, jobClosed, readyClosed, outputClosed, data>>
  /\ UNCHANGED <<wkind, ready, jobLock, jobCount, initCount, termCount, intrCount>>
  /\ UNCHANGED <<mgrVars, callVars, connVars>>

\* for data := range wrapper.jobChan: the channel is closed and empty
LoopJobChanClosed(w) ==
  /\ ~panicked
  /\ wpc[w] = "recv"
  /\ jobClosed[w]
  /\ wpc' = [wpc EXCEPT ![w] = "closeR"]
  /\ UNCHANGED <<poolOpen, jobClosed, readyClosed, outputClosed, data>>
  /\ UNCHANGED <<workerVars, mgrVars, callVars, connVars>>

\* the input is forwarded without calling Job
ExecutedMut(w) == data[w]

\* wrapper.worker.Job(data)
Executed(w) == JobResult(w, data[w])

\* wrapper.worker.Job(data), the right-hand side of the output send
LoopJob(w) ==
  /\ ~panicked
  /\ wpc[w] = "exec"
  /\ JobCanRun(w)
  /\ data' = [data EXCEPT ![w] = Executed(w)]
  /\ jobCount' = [jobCount EXCEPT ![w] = @ + 1]
  /\ ready' = [ready EXCEPT ![w] = FALSE]
  /\ wpc' = [wpc EXCEPT ![w] = "out"]
  /\ UNCHANGED <<poolOpen, jobClosed, readyClosed, outputClosed>>
  /\ UNCHANGED <<wkind, brokeOut, jobLock, initCount, termCount, intrCount>>
  /\ UNCHANGED <<mgrVars, callVars, connVars>>

\* close(wrapper.readyChan)
LoopCloseReady(w) ==
  /\ ~panicked
  /\ wpc[w] = "closeR"
  /\ readyClosed' = [readyClosed EXCEPT ![w] = TRUE]
  /\ wpc' = [wpc EXCEPT ![w] = "closeO"]
  /\ UNCHANGED <<poolOpen, jobClosed, outputClosed, data>>
  /\ UNCHANGED <<workerVars, mgrVars, callVars, connVars>>

\* the loop returns and leaves the output channel open
LoopCloseOutputMut(w) ==
  /\ ~panicked
  /\ wpc[w] = "closeO"
  /\ wpc' = [wpc EXCEPT ![w] = "done"]
  /\ UNCHANGED <<poolOpen, jobClosed, readyClosed, outputClosed, data>>
  /\ UNCHANGED <<workerVars, mgrVars, callVars, connVars>>

\* close(wrapper.outputChan); Loop returns
LoopCloseOutput(w) ==
  /\ ~panicked
  /\ wpc[w] = "closeO"
  /\ outputClosed' = [outputClosed EXCEPT ![w] = TRUE]
  /\ wpc' = [wpc EXCEPT ![w] = "done"]
  /\ UNCHANGED <<poolOpen, jobClosed, readyClosed, data>>
  /\ UNCHANGED <<workerVars, mgrVars, callVars, connVars>>

\* The loop's channel operations, as seen from the other side.
\* the ready signal stays available after it was taken (a buffered channel)
ReadySendingMut(w) == wpc[w] \in Signalling \cup {"recv"}

\* the first ready signal is sent before the polling instead of after it
ReadySendingEarly(w) == wpc[w] \in Signalling \cup {"warm", "warmChk"}

\* the loop signals ready before its first job only
ReadySendingOnce(w) == wpc[w] = "sig1"

\* wrapper.readyChan <- 1 is ready to rendezvous
ReadySending(w) == wpc[w] \in Signalling

\* range wrapper.jobChan is ready to take a value
JobReceiving(w) == wpc[w] = "recv" /\ ~jobClosed[w]

\* the value is sent before Job is called on it
OutputSendingMut(w) == wpc[w] \in {"exec", "out"}

\* wrapper.outputChan <- result is ready to rendezvous
OutputSending(w) == wpc[w] = "out"

\* ------------------------------------------------------------------------
\* workerWrapper.Open / Close / Join / Interrupt, called by the pool manager.
\* The manager's Open opens every wrapper and marks the pool running; its
\* Close closes every wrapper, then joins every wrapper, then marks the pool
\* closed (manager modelled from its design description).  lpc and lidx are
\* the position of the goroutine running the manager's Open and Close.
\* ------------------------------------------------------------------------
Pool == 1..size

NextStage(w, again, after) == IF w = size THEN after ELSE again

NextIdx(w) == IF w = size THEN 1 ELSE w + 1

\* workerWrapper.Open: Initialize, make the channels, poolOpen = 1, go Loop()
WrapperOpen(w) ==
  /\ ~panicked
  /\ lpc = "open" /\ lidx = w
  /\ initCount' = [initCount EXCEPT ![w] = IF IsExtended(w) THEN @ + 1 ELSE @]
  /\ jobClosed' = [jobClosed EXCEPT ![w] = FALSE]
  /\ readyClosed' = [readyClosed EXCEPT ![w] = FALSE]
  /\ outputClosed' = [outputClosed EXCEPT ![w] = FALSE]
  /\ poolOpen' = [poolOpen EXCEPT ![w] = 1]
  /\ wpc' = [wpc EXCEPT ![w] = "warm"]
  /\ lpc' = NextStage(w, "open", "opened")
  /\ lidx' = NextIdx(w)
  /\ UNCHANGED <<data, wkind, ready, brokeOut, jobLock, jobCount, termCount, intrCount>>
  /\ UNCHANGED <<size, mgr, readyOpen, pending, drain, panicked>>
  /\ UNCHANGED <<callVars, connVars>>

\* the manager's Open returns: the pool is running
PoolOpened ==
  /\ ~panicked
  /\ lpc = "opened"
  /\ mgr' = "running"
  /\ lpc' = "run"
  /\ UNCHANGED <<size, lidx, readyOpen, pending, drain, panicked>>
  /\ UNCHANGED <<wrapVars, workerVars, callVars, connVars>>

\* the manager's Close is called
PoolCloseBegin ==
  /\ ~panicked
  /\ lpc = "run"
  /\ lpc' = "closeJ"
  /\ lidx' = 1
  /\ UNCHANGED <<size, mgr, readyOpen, pending, drain, panicked>>
  /\ UNCHANGED <<wrapVars, workerVars, callVars, connVars>>

\* workerWrapper.Close, first statement: close(wrapper.jobChan)
WrapperCloseJobChan(w) ==
  /\ ~panicked
  /\ lpc = "closeJ" /\ lidx = w
  /\ jobClosed' = [jobClosed EXCEPT ![w] = TRUE]
  /\ lpc' = "closeP"
  /\ UNCHANGED <<wpc, poolOpen, readyClosed, outputClosed, data>>
  /\ UNCHANGED <<size, mgr, lidx, readyOpen, pending, drain, panicked>>
  /\ UNCHANGED <<workerVars, callVars, connVars>>

\* workerWrapper.Close, second statement: atomic.SwapUint32(&poolOpen, 0)
WrapperCloseFlag(w) ==
  /\ ~panicked
  /\ lpc = "closeP" /\ lidx = w
  /\ poolOpen' = [poolOpen EXCEPT ![w] = 0]
  /\ lpc' = NextStage(w, "closeJ", "joinR")
  /\ lidx' = NextIdx(w)
  /\ UNCHANGED <<wpc, jobClosed, readyClosed, outputClosed, data>>
  /\ UNCHANGED <<size, mgr, readyOpen, pending, drain, panicked>>
  /\ UNCHANGED <<workerVars, callVars, connVars>>

\* workerWrapper.Join: _, readyOpen := <-wrapper.readyChan
JoinRecvReady(w) ==
  /\ ~panicked
  /\ lpc = "joinR" /\ lidx = w
  /\ \/ /\ ReadySending(w)
        /\ readyOpen' = TRUE
        /\ wpc' = [wpc EXCEPT ![w] = "recv"]
     \/ /\ readyClosed[w]
        /\ readyOpen' = FALSE
        /\ UNCHANGED wpc
  /\ lpc' = "joinO"
  /\ UNCHANGED <<poolOpen, jobClosed, readyClosed, outputClosed, data>>
  /\ UNCHANGED <<size, mgr, lidx, pending, drain, panicked>>
  /\ UNCHANGED <<workerVars, callVars, connVars>>

\* the test is inverted
JoinExitMut(ro, oo) == ro /\ oo

\* if !readyOpen && !outputOpen { break }
JoinExit(ro, oo) == ~ro /\ ~oo

\* workerWrapper.Join: _, outputOpen := <-wrapper.outputChan, then the test
JoinRecvOutput(w) ==
  /\ ~panicked
  /\ lpc = "joinO" /\ lidx = w
  /\ \/ /\ OutputSending(w)
        /\ wpc' = [wpc EXCEPT ![w] = "poll"]
        /\ data' = [data EXCEPT ![w] = NoVal]
        /\ lpc' = IF JoinExit(readyOpen, TRUE) THEN "term" ELSE "joinR"
     \/ /\ outputClosed[w]
        /\ UNCHANGED <<wpc, data>>
        /\ lpc' = IF JoinExit(readyOpen, FALSE) THEN "term" ELSE "joinR"
  /\ UNCHANGED <<poolOpen, jobClosed, readyClosed, outputClosed>>
  /\ UNCHANGED <<size, mgr, lidx, readyOpen, pending, drain, panicked>>
  /\ UNCHANGED <<workerVars, callVars, connVars>>

\* workerWrapper.Join: Terminate for an extended worker, then return
JoinTerminate(w) ==
  /\ ~panicked
  /\ lpc = "term" /\ lidx = w
  /\ termCount' = [termCount EXCEPT ![w] = IF IsExtended(w) THEN @ + 1 ELSE @]
  /\ lpc' = NextStage(w, "joinR", "mark")
  /\ lidx' = NextIdx(w)
  /\ readyOpen' = FALSE
  /\ UNCHANGED <<wkind, ready, brokeOut, jobLock, jobCount, initCount, intrCount>>
  /\ UNCHANGED <<size, mgr, pending, drain, panicked>>
  /\ UNCHANGED <<wrapVars, callVars, connVars>>

\* the manager's Close marks the pool closed and returns
PoolMarkClosed ==
  /\ ~panicked
  /\ lpc = "mark"
  /\ mgr' = "closed"
  /\ lpc' = "closed"
  /\ UNCHANGED <<size, lidx, readyOpen, pending, drain, panicked>>
  /\ UNCHANGED <<wrapVars, workerVars, callVars, connVars>>

\* workerWrapper.Interrupt, run by the goroutine a timed-out dispatch leaves
\* behind; dummyExtIntWorker.Interrupt unlocks jobLock (unlocking an unlocked
\* mutex is a fatal error)
DrainInterrupt(w) ==
  /\ ~panicked
  /\ drain[w] = "intr"
  /\ drain' = [drain EXCEPT ![w] = "recv"]
  /\ IF IsInterruptable(w)
       THEN /\ intrCount' = [intrCount EXCEPT ![w] = @ + 1]
            /\ jobLock' = [jobLock EXCEPT ![w] = FALSE]
            /\ panicked' = ~jobLock[w]
       ELSE UNCHANGED <<intrCount, jobLock, panicked>>
  /\ UNCHANGED <<wkind, ready, brokeOut, jobCount, initCount, termCount>>
  /\ UNCHANGED <<size, mgr, lpc, lidx, readyOpen, pending>>
  /\ UNCHANGED <<wrapVars, callVars, connVars>>

\* ... which then receives the late result from outputChan and drops it
DrainRecv(w) ==
  /\ ~panicked
  /\ drain[w] = "recv"
  /\ \/ /\ OutputSending(w)
        /\ wpc' = [wpc EXCEPT ![w] = "poll"]
        /\ data' = [data EXCEPT ![w] = NoVal]
     \/ /\ outputClosed[w]
        /\ UNCHANGED <<wpc, data>>
  /\ drain' = [drain EXCEPT ![w] = "none"]
  /\ UNCHANGED <<poolOpen, jobClosed, readyClosed, outputClosed>>
  /\ UNCHANGED <<size, mgr, lpc, lidx, readyOpen, pending, panicked>>
  /\ UNCHANGED <<workerVars, callVars, connVars>>

\* ------------------------------------------------------------------------
\* The manager's dispatch operations (modelled from the design description):
\* SendWork, SendWorkTimed, SendWorkAsync.  A call by c is:
\*   check  - fail with the closed-pool error if the manager is marked closed
\*            (cerr "closed"; a dispatch that finds a wrapper's ready or
\*            output channel closed fails with cerr "workerClosed")
\*   select - receive from some wrapper's ready channel
\*   send   - send the input on that wrapper's job channel
\*   recv   - receive the result from that wrapper's output channel
\*   after  - (async only) onComplete, then decrement the pending counter
\* ------------------------------------------------------------------------
OpenReturned == lpc \notin {"open", "opened"}

Returned(c, k) == IF k = "async" THEN "after" ELSE "idle"

Counted(c, k) == IF k = "async" THEN ncalls[c] ELSE ncalls[c] + 1

\* the call is made; SendWorkAsync increments the counter before it returns
\* every call carries an input of its own
NewInput(c) == 10 * c + ncalls[c]

CallStart(c, k, limit) ==
  /\ ~panicked
  /\ OpenReturned
  /\ cpc[c] = "idle"
  /\ ncalls[c] < limit
  /\ ckind' = [ckind EXCEPT ![c] = k]
  /\ cin' = [cin EXCEPT ![c] = NewInput(c)]
  /\ cw' = [cw EXCEPT ![c] = 0]
  /\ cres' = [cres EXCEPT ![c] = NoVal]
  /\ cerr' = [cerr EXCEPT ![c] = "none"]
  /\ cpc' = [cpc EXCEPT ![c] = "check"]
  /\ pending' = IF k = "async" THEN pending + 1 ELSE pending
  /\ UNCHANGED ncalls
  /\ UNCHANGED <<size, mgr, lpc, lidx, readyOpen, drain, panicked>>
  /\ UNCHANGED <<wrapVars, workerVars, connVars>>

\* the check is missing
MarkedClosedMut == FALSE

\* the manager is marked closed
MarkedClosed == mgr = "closed"

CallFail(c, e) ==
  /\ cerr' = [cerr EXCEPT ![c] = e]
  /\ cpc' = [cpc EXCEPT ![c] = Returned(c, ckind[c])]
  /\ ncalls' = [ncalls EXCEPT ![c] = Counted(c, ckind[c])]
  /\ UNCHANGED <<ckind, cin, cw, cres>>

CallCheck(c) ==
  /\ ~panicked
  /\ cpc[c] = "check"
  /\ IF MarkedClosed
       THEN CallFail(c, "closed")
       ELSE /\ cpc' = [cpc EXCEPT ![c] = "select"]
            /\ UNCHANGED <<ckind, cin, cw, cres, cerr, ncalls>>
  /\ UNCHANGED <<wrapVars, workerVars, mgrVars, connVars>>

\* the select over every wrapper's ready channel: wrapper w's signal is taken
CallSelect(c, w) ==
  /\ ~panicked
  /\ cpc[c] = "select"
  /\ w \in Pool
  /\ ReadySending(w)
  /\ wpc' = [wpc EXCEPT ![w] = "recv"]
  /\ cw' = [cw EXCEPT ![c] = w]
  /\ cpc' = [cpc EXCEPT ![c] = "send"]
  /\ UNCHANGED <<ckind, cin, cres, cerr, ncalls>>
  /\ UNCHANGED <<poolOpen, jobClosed, readyClosed, outputClosed, data>>
  /\ UNCHANGED <<workerVars, mgrVars, connVars>>

\* the select fires on a ready channel that the loop has closed
CallSelectClosed(c, w) ==
  /\ ~panicked
  /\ cpc[c] = "select"
  /\ w \in Pool
  /\ readyClosed[w]
  /\ CallFail(c, "workerClosed")
  /\ UNCHANGED <<wrapVars, workerVars, mgrVars, connVars>>

\* jobChan <- input: a rendezvous with the loop's range, or a panic when the
\* channel has been closed
CallSendJob(c) ==
  /\ ~panicked
  /\ cpc[c] = "send"
  /\ IF jobClosed[cw[c]]
       THEN /\ panicked' = TRUE
            /\ UNCHANGED <<wpc, data, cpc>>
       ELSE /\ JobReceiving(cw[c])
            /\ data' = [data EXCEPT ![cw[c]] = cin[c]]
            /\ wpc' = [wpc EXCEPT ![cw[c]] = "exec"]
            /\ cpc' = [cpc EXCEPT ![c] = "recv"]
            /\ UNCHANGED panicked
  /\ UNCHANGED <<ckind, cin, cw, cres, cerr, ncalls>>
  /\ UNCHANGED <<poolOpen, jobClosed, readyClosed, outputClosed>>
  /\ UNCHANGED <<size, mgr, lpc, lidx, readyOpen, pending, drain>>
  /\ UNCHANGED <<workerVars, connVars>>

\* the value a caller takes from wrapper w's output channel
Delivered(c, w) == data[w]

\* result := <-outputChan
CallRecvOutput(c) ==
  /\ ~panicked
  /\ cpc[c] = "recv"
  /\ \/ /\ OutputSending(cw[c])
        /\ wpc' = [wpc EXCEPT ![cw[c]] = "poll"]
        /\ data' = [data EXCEPT ![cw[c]] = NoVal]
        /\ cres' = [cres EXCEPT ![c] = Delivered(c, cw[c])]
        /\ cpc' = [cpc EXCEPT ![c] = Returned(c, ckind[c])]
        /\ ncalls' = [ncalls EXCEPT ![c] = Counted(c, ckind[c])]
        /\ UNCHANGED <<ckind, cin, cw, cerr>>
     \/ /\ outputClosed[cw[c]]
        /\ CallFail(c, "workerClosed")
        /\ UNCHANGED <<wpc, data>>
  /\ UNCHANGED <<poolOpen, jobClosed, readyClosed, outputClosed>>
  /\ UNCHANGED <<workerVars, mgrVars, connVars>>

\* SendWorkTimed: the deadline expires while waiting for a ready wrapper
CallTimeoutSelect(c) ==
  /\ ~panicked
  /\ ckind[c] = "timed"
  /\ cpc[c] = "select"
  /\ CallFail(c, "timeout")
  /\ UNCHANGED <<wrapVars, workerVars, mgrVars, connVars>>

\* what a timed-out dispatch leaves behind for the wrapper it had claimed
Abandon(w) == [drain EXCEPT ![w] = "intr"]

\* SendWorkTimed: the deadline expires while waiting for the result; the
\* wrapper is interrupted and its late result is discarded
CallTimeoutRecv(c) ==
  /\ ~panicked
  /\ ckind[c] = "timed"
  /\ cpc[c] = "recv"
  /\ CallFail(c, "timeout")
  /\ drain' = Abandon(cw[c])
  /\ UNCHANGED <<size, mgr, lpc, lidx, readyOpen, pending, panicked>>
  /\ UNCHANGED <<wrapVars, workerVars, connVars>>

\* the decrement is missing
DecrementedMut(n) == n

\* the counter's value after one async submission has resolved
Decremented(n) == n - 1

\* SendWorkAsync's goroutine: onComplete(result, err), then the decrement
AsyncComplete(c) ==
  /\ ~panicked
  /\ cpc[c] = "after"
  /\ pending' = Decremented(pending)
  /\ cpc' = [cpc EXCEPT ![c] = "idle"]
  /\ ncalls' = [ncalls EXCEPT ![c] = @ + 1]
  /\ UNCHANGED <<ckind, cin, cw, cres, cerr>>
  /\ UNCHANGED <<size, mgr, lpc, lidx, readyOpen, drain, panicked>>
  /\ UNCHANGED <<wrapVars, workerVars, connVars>>

\* ------------------------------------------------------------------------
\* Specifications of the worker pool
\* ------------------------------------------------------------------------
ConnIdle ==
  /\ connsNil = FALSE
  /\ factoryNil = FALSE
  /\ chanBuf = <<>>
  /\ chanClosed = FALSE
  /\ closedConns = {}
  /\ nextConn = 1
  /\ held = {}
  /\ gpc = "idle"
  /\ kpc = "idle"
  /\ lastOp = [op |-> "none"]

\* the pool as constructed (CreatePool / CreateCustomPool), before Open
PoolInit(sizes, kinds) ==
  /\ size \in sizes
  /\ wpc = [w \in Workers |-> "idle"]
  /\ poolOpen = [w \in Workers |-> 0]
  /\ jobClosed = [w \in Workers |-> FALSE]
  /\ readyClosed = [w \in Workers |-> FALSE]
  /\ outputClosed = [w \in Workers |-> FALSE]
  /\ data = [w \in Workers |-> NoVal]
  /\ wkind \in kinds
  /\ ready = [w \in Workers |-> FALSE]
  /\ brokeOut = [w \in Workers |-> FALSE]
  /\ jobLock = [w \in Workers |-> FALSE]
  /\ jobCount = [w \in Workers |-> 0]
  /\ initCount = [w \in Workers |-> 0]
  /\ termCount = [w \in Workers |-> 0]
  /\ intrCount = [w \in Workers |-> 0]
  /\ mgr = "new"
  /\ lpc = "open"
  /\ lidx = 1
  /\ readyOpen = FALSE
  /\ pending = 0
  /\ drain = [w \in Workers |-> "none"]
  /\ panicked = FALSE
  /\ cpc = [c \in Callers |-> "idle"]
  /\ ckind = [c \in Callers |-> "none"]
  /\ cin = [c \in Callers |-> NoVal]
  /\ cw = [c \in Callers |-> 0]
  /\ cres = [c \in Callers |-> NoVal]
  /\ cerr = [c \in Callers |-> "none"]
  /\ ncalls = [c \in Callers |-> 0]

LoopNext ==
  \E w \in Workers :
    \/ LoopReady(w)
    \/ LoopCheck(w)
    \/ LoopJobChanClosed(w)
    \/ LoopJob(w)
    \/ LoopCloseReady(w)
    \/ LoopCloseOutput(w)

OpenNext ==
  \/ \E w \in Workers : WrapperOpen(w)
  \/ PoolOpened

CloseNext ==
  \/ \E w \in Workers :
       \/ WrapperCloseJobChan(w)
       \/ WrapperCloseFlag(w)
       \/ JoinRecvReady(w)
       \/ JoinRecvOutput(w)
       \/ JoinTerminate(w)
  \/ PoolMarkClosed

DispatchNext ==
  \E c \in Callers :
    \/ CallCheck(c)
    \/ \E w \in Workers : CallSelect(c, w)
    \/ \E w \in Workers : CallSelectClosed(c, w)
    \/ CallSendJob(c)
    \/ CallRecvOutput(c)

TimedNext ==
  \/ \E c \in Callers : CallTimeoutSelect(c)
  \/ \E c \in Callers : CallTimeoutRecv(c)
  \/ \E w \in Workers : DrainInterrupt(w)
  \/ \E w \in Workers : DrainRecv(w)

\* a pool whose workers are all of kind k
AllOf(k) == [w \in Workers |-> k]

\* A pool of extended workers whose Ready may return either value, or a pool
\* of function workers; every caller makes one SendWork call, at any time
\* after Open (the calls overlap or follow one another); Close is called at
\* any time after Open.
Init == PoolInit(1..NumWorkers, {AllOf("ext"), AllOf("fn")}) /\ ConnIdle

Next ==
  \/ LoopNext
  \/ OpenNext
  \/ PoolCloseBegin
  \/ CloseNext
  \/ \E c \in Callers : CallStart(c, "sync", 1)
  \/ DispatchNext

Spec == Init /\ [][Next]_vars

\* SendWorkTimed callers (one call each, deadlines expiring at any moment) on
\* an open pool of extended workers, of workers that never become ready, or
\* of dummyExtIntWorker.
InitTimed ==
  PoolInit(1..NumWorkers, {AllOf("ext"), AllOf("never"), AllOf("extint")}) /\ ConnIdle

TimedSpecNext ==
  \/ OpenNext
  \/ \E w \in Workers : LoopReady(w) \/ LoopCheck(w) \/ LoopJob(w)
  \/ \E c \in Callers : CallStart(c, "timed", 1)
  \/ \E c \in Callers :
       \/ CallCheck(c)
       \/ \E w \in Workers : CallSelect(c, w)
       \/ CallSendJob(c)
       \/ CallRecvOutput(c)
  \/ TimedNext

SpecTimed == InitTimed /\ [][TimedSpecNext]_vars

\* SendWorkAsync callers (one submission each) on a pool of extended workers.
\* Submissions are made while the pool is open or after its Close has
\* returned, and Close is called when no submission is unresolved.
InitAsync == PoolInit(1..NumWorkers, {AllOf("ext")}) /\ ConnIdle

Quiet == \A c \in Callers : cpc[c] = "idle"

AsyncNext ==
  \/ LoopNext
  \/ OpenNext
  \/ Quiet /\ PoolCloseBegin
  \/ CloseNext
  \/ \E c \in Callers : lpc \in {"run", "closed"} /\ CallStart(c, "async", 1)
  \/ \E c \in Callers :
       \/ CallCheck(c)
       \/ \E w \in Workers : CallSelect(c, w)
       \/ CallSendJob(c)
       \/ CallRecvOutput(c)
  \/ \E c \in Callers : AsyncComplete(c)

SpecAsync == InitAsync /\ [][AsyncNext]_vars

\* The round trip of the tests: one caller issues SeqCalls SendWork calls one
\* after the other, then closes the pool.
SeqCaller == CHOOSE c \in Callers : \A d \in Callers : c <= d

SeqDone == cpc[SeqCaller] = "idle" /\ ncalls[SeqCaller] = SeqCalls

SeqNext ==
  \/ LoopNext
  \/ OpenNext
  \/ SeqDone /\ PoolCloseBegin
  \/ CloseNext
  \/ CallStart(SeqCaller, "sync", SeqCalls)
  \/ CallCheck(SeqCaller)
  \/ \E w \in Workers : CallSelect(SeqCaller, w)
  \/ CallSendJob(SeqCaller)
  \/ CallRecvOutput(SeqCaller)

SpecSeq == Init /\ [][SeqNext]_vars

\* M concurrent SendWork callers on an open pool of N function workers that
\* is not closed meanwhile; every goroutine that can take a step eventually
\* takes one.
InitLive == PoolInit(1..NumWorkers, {AllOf("fn")}) /\ ConnIdle

LiveLoop(w) == LoopReady(w) \/ LoopJob(w)

LiveCall(c) ==
  \/ CallCheck(c)
  \/ \E w \in Workers : CallSelect(c, w)
  \/ CallSendJob(c)
  \/ CallRecvOutput(c)

LiveNext ==
  \/ OpenNext
  \/ \E w \in Workers : LiveLoop(w)
  \/ \E c \in Callers : CallStart(c, "sync", 1)
  \/ \E c \in Callers : LiveCall(c)

SpecLive ==
  /\ InitLive
  /\ [][LiveNext]_vars
  /\ WF_vars(OpenNext)
  /\ \A w \in Workers : WF_vars(LiveLoop(w))
  /\ \A c \in Callers : WF_vars(LiveCall(c))

\* The loop under every interleaving with Close: one caller issues SeqCalls
\* SendWork calls one after the other on a pool of extended workers whose
\* Ready may return either value, and Close is called at any time after Open.
InitLoop == PoolInit(1..NumWorkers, {AllOf("ext")}) /\ ConnIdle

LoopSpecNext ==
  \/ LoopNext
  \/ OpenNext
  \/ PoolCloseBegin
  \/ CloseNext
  \/ CallStart(SeqCaller, "sync", SeqCalls)
  \/ CallCheck(SeqCaller)
  \/ \E w \in Workers : CallSelect(SeqCaller, w)
  \/ \E w \in Workers : CallSelectClosed(SeqCaller, w)
  \/ CallSendJob(SeqCaller)
  \/ CallRecvOutput(SeqCaller)

SpecLoop == InitLoop /\ [][LoopSpecNext]_vars

\* A pool whose first worker never becomes ready, next to function workers,
\* with SendWork callers and a Close at any time after Open.
NeverFirst == [w \in Workers |-> IF w = 1 THEN "never" ELSE "fn"]

InitNever == PoolInit(1..NumWorkers, {NeverFirst}) /\ ConnIdle

SpecNever == InitNever /\ [][Next]_vars

\* Close and Join under fair scheduling.  SendWork callers are served by a
\* pool of extended workers whose Ready may return either value; Close is
\* called when every call that was made has returned or is waiting for its
\* result, and no call is made from then on.  The goroutine running Close and
\* Join, every loop and every caller waiting for a result eventually take the
\* step they are able to take (Ready and Job return).
InitJoin == PoolInit(1..NumWorkers, {AllOf("ext")}) /\ ConnIdle

Settled == \A c \in Callers : cpc[c] \in {"idle", "recv"}

WrapperLoop(w) ==
  \/ LoopReady(w)
  \/ LoopCheck(w)
  \/ LoopJobChanClosed(w)
  \/ LoopJob(w)
  \/ LoopCloseReady(w)
  \/ LoopCloseOutput(w)

JoinNext ==
  \/ OpenNext
  \/ \E w \in Workers : WrapperLoop(w)
  \/ Settled /\ PoolCloseBegin
  \/ CloseNext
  \/ \E c \in Callers : lpc = "run" /\ CallStart(c, "sync", 1)
  \/ \E c \in Callers : LiveCall(c)

SpecJoin ==
  /\ InitJoin
  /\ [][JoinNext]_vars
  /\ WF_vars(CloseNext)
  /\ \A w \in Workers : WF_vars(WrapperLoop(w))
  /\ \A c \in Callers : WF_vars(CallRecvOutput(c))

\* Timeouts against dummyExtIntWorker, then Close, under fair scheduling.
\* Every caller makes one SendWorkTimed call while the pool is open; Close is
\* called once every call has returned (the goroutines that discard late
\* results may still be running).  Ready() of this worker always returns true,
\* so the loop never reaches the body of its polling; its Job waits for the
\* lock that Ready() holds, so no result arrives before the deadline.
InitIntr == PoolInit(1..NumWorkers, {AllOf("extint")}) /\ ConnIdle

IntrLoop(w) ==
  \/ LoopReady(w)
  \/ LoopJobChanClosed(w)
  \/ LoopJob(w)
  \/ LoopCloseReady(w)
  \/ LoopCloseOutput(w)

IntrCall(c) ==
  \/ CallCheck(c)
  \/ \E w \in Workers : CallSelect(c, w)
  \/ CallSendJob(c)
  \/ CallTimeoutSelect(c)
  \/ CallTimeoutRecv(c)

IntrDrain(w) == DrainInterrupt(w) \/ DrainRecv(w)

IntrNext ==
  \/ OpenNext
  \/ \E w \in Workers : IntrLoop(w)
  \/ Quiet /\ PoolCloseBegin
  \/ CloseNext
  \/ \E c \in Callers : lpc = "run" /\ CallStart(c, "timed", 1)
  \/ \E c \in Callers : IntrCall(c)
  \/ \E w \in Workers : IntrDrain(w)

SpecIntr ==
  /\ InitIntr
  /\ [][IntrNext]_vars
  /\ WF_vars(OpenNext)
  /\ WF_vars(CloseNext)
  /\ \A w \in Workers : WF_vars(IntrLoop(w)) /\ WF_vars(IntrDrain(w))
  /\ \A c \in Callers : WF_vars(IntrCall(c))

\* ------------------------------------------------------------------------
\* The tcp connection pool: channelPool and PoolConn.
\* Connections are 1..MaxConns, created in this order by the factory; NilConn
\* is the nil net.Conn.  conns is a buffered channel of capacity maxCap: its
\* contents are chanBuf, and c.conns is either that channel or nil.
\* ------------------------------------------------------------------------
NilConn == 0

\* the pool as NewChannelPool(initialCap, maxCap, factory) leaves it
ConnInit(caps) ==
  /\ connsNil = FALSE
  /\ factoryNil = FALSE
  /\ \E n \in caps : /\ chanBuf = [i \in 1..n |-> i]
                     /\ nextConn = n + 1
  /\ chanClosed = FALSE
  /\ closedConns = {}
  /\ held = {}
  /\ gpc = "idle"
  /\ kpc = "idle"
  /\ lastOp = [op |-> "none"]

\* channelPool.Len: len(c.getConns()), 0 for the nil channel
PoolLen == IF connsNil THEN 0 ELSE Len(chanBuf)

\* no goroutine has panicked (a panic ends the process)
Alive == ~(lastOp.op = "get" /\ lastOp.err = "panic")

\* channelPool.wrapConn
WrapConn(conn) == [conn |-> conn, unusable |-> FALSE]

\* Get: conns := c.getConns(); if conns == nil { return nil, ErrClosed }
GetConns ==
  /\ Alive
  /\ gpc = "idle"
  /\ IF connsNil
       THEN /\ lastOp' = [op |-> "get", err |-> "ErrClosed", conn |-> NilConn, from |-> "pool"]
            /\ UNCHANGED gpc
       ELSE /\ gpc' = "select"
            /\ UNCHANGED lastOp
  /\ UNCHANGED <<connsNil, factoryNil, chanBuf, chanClosed, closedConns, nextConn, held, kpc>>
  /\ UNCHANGED poolVars

\* Get: select { case conn := <-conns: ... default: ... }
GetSelect ==
  /\ Alive
  /\ gpc = "select"
  /\ IF chanBuf # <<>>
       THEN /\ chanBuf' = Tail(chanBuf)
            /\ held' = held \cup {WrapConn(Head(chanBuf))}
            /\ lastOp' = [op |-> "get", err |-> "none", conn |-> Head(chanBuf),
                          from |-> "pool"]
            /\ gpc' = "idle"
       ELSE IF chanClosed
         THEN /\ lastOp' = [op |-> "get", err |-> "ErrClosed", conn |-> NilConn, from |-> "pool"]
              /\ gpc' = "idle"
              /\ UNCHANGED <<chanBuf, held>>
         ELSE /\ gpc' = "factory"
              /\ UNCHANGED <<chanBuf, held, lastOp>>
  /\ UNCHANGED <<connsNil, factoryNil, chanClosed, closedConns, nextConn, kpc>>
  /\ UNCHANGED poolVars

\* conn, err := factory(): the factory returns a new connection, an error, or
\* a nil connection without error
FactoryCall ==
  \/ /\ nextConn <= MaxConns
     /\ nextConn' = nextConn + 1
     /\ held' = held \cup {WrapConn(nextConn)}
     /\ lastOp' = [op |-> "get", err |-> "none", conn |-> nextConn, from |-> "factory"]
  \/ /\ lastOp' = [op |-> "get", err |-> "factory", conn |-> NilConn, from |-> "factory"]
     /\ UNCHANGED <<nextConn, held>>
  \/ /\ held' = held \cup {WrapConn(NilConn)}
     /\ lastOp' = [op |-> "get", err |-> "none", conn |-> NilConn, from |-> "factory"]
     /\ UNCHANGED nextConn

\* Get, default case: conn, err := c.factory().  c.factory is read without
\* c.mu while Close writes it under c.mu: once Close has set it to nil the
\* read yields nil (the call panics) or, the read being unsynchronised, the
\* factory that was there before.
GetFactory ==
  /\ Alive
  /\ gpc = "factory"
  /\ gpc' = "idle"
  /\ IF factoryNil
       THEN \/ /\ lastOp' = [op |-> "get", err |-> "panic", conn |-> NilConn,
                              from |-> "factory"]
               /\ UNCHANGED <<nextConn, held>>
            \/ FactoryCall
       ELSE FactoryCall
  /\ UNCHANGED <<connsNil, factoryNil, chanBuf, chanClosed, closedConns, kpc>>
  /\ UNCHANGED poolVars

\* PoolConn.MarkUnusable
MarkUnusable(p) ==
  /\ Alive
  /\ p \in held
  /\ ~p.unusable
  /\ held' = (held \ {p}) \cup {[p EXCEPT !.unusable = TRUE]}
  /\ lastOp' = [op |-> "mark", conn |-> p.conn]
  /\ UNCHANGED <<connsNil, factoryNil, chanBuf, chanClosed, closedConns, nextConn, gpc, kpc>>
  /\ UNCHANGED poolVars

\* put: if conn == nil { return errors.New("connection is nil. rejecting") }
RejectedMut(conn) == FALSE
Rejected(conn) == conn = NilConn

\* the channel takes every value (no capacity)
HasRoomMut == TRUE

\* put: select { case c.conns <- conn: ... default: ... } finds room
HasRoom == Len(chanBuf) < MaxCap

\* the check for the closed pool is missing
PutMut(conn) ==
  IF Rejected(conn)
    THEN [buf |-> chanBuf, closed |-> closedConns, err |-> "nil", did |-> "rejected"]
    ELSE IF HasRoom
      THEN [buf |-> Append(chanBuf, conn), closed |-> closedConns, err |-> "none",
            did |-> "pooled"]
      ELSE [buf |-> chanBuf, closed |-> closedConns \cup {conn}, err |-> "none",
            did |-> "closed"]

\* channelPool.put(conn), under c.mu.  The outcome: what the pool holds, the
\* connections closed so far, the error returned.
Put(conn) ==
  IF Rejected(conn)
    THEN [buf |-> chanBuf, closed |-> closedConns, err |-> "nil", did |-> "rejected"]
    ELSE IF connsNil
      THEN [buf |-> chanBuf, closed |-> closedConns \cup {conn}, err |-> "none",
            did |-> "closed"]
      ELSE IF HasRoom
        THEN [buf |-> Append(chanBuf, conn), closed |-> closedConns, err |-> "none",
              did |-> "pooled"]
        ELSE [buf |-> chanBuf, closed |-> closedConns \cup {conn}, err |-> "none",
              did |-> "closed"]

\* PoolConn.Close, after which the caller lets go of the PoolConn
PoolConnClose(p) ==
  /\ Alive
  /\ p \in held
  /\ held' = held \ {p}
  /\ IF p.unusable
       THEN /\ closedConns' = IF p.conn # NilConn THEN closedConns \cup {p.conn}
                                                ELSE closedConns
            /\ UNCHANGED chanBuf
            /\ lastOp' = [op |-> "close", conn |-> p.conn, err |-> "none",
                          did |-> IF p.conn # NilConn THEN "closed" ELSE "nothing",
                          lenBefore |-> PoolLen, lenAfter |-> PoolLen]
       ELSE /\ chanBuf' = Put(p.conn).buf
            /\ closedConns' = Put(p.conn).closed
            /\ lastOp' = [op |-> "put", conn |-> p.conn, err |-> Put(p.conn).err,
                          did |-> Put(p.conn).did,
                          lenBefore |-> PoolLen,
                          lenAfter |-> IF connsNil THEN 0 ELSE Len(Put(p.conn).buf)]
  /\ UNCHANGED <<connsNil, factoryNil, chanClosed, nextConn, gpc, kpc>>
  /\ UNCHANGED poolVars

\* channelPool.Close, under c.mu: conns := c.conns; c.conns = nil;
\* c.factory = nil; then return if conns == nil
PoolCloseLocked ==
  /\ Alive
  /\ kpc = "idle"
  /\ kpc' = IF connsNil THEN "idle" ELSE "close"
  /\ connsNil' = TRUE
  /\ factoryNil' = TRUE
  /\ lastOp' = [op |-> "poolClose", first |-> ~connsNil]
  /\ UNCHANGED <<chanBuf, chanClosed, closedConns, nextConn, held, gpc>>
  /\ UNCHANGED poolVars

\* channelPool.Close: close(conns)
PoolCloseChan ==
  /\ Alive
  /\ kpc = "close"
  /\ chanClosed' = TRUE
  /\ kpc' = "drain"
  /\ UNCHANGED <<connsNil, factoryNil, chanBuf, closedConns, nextConn, held, gpc, lastOp>>
  /\ UNCHANGED poolVars

\* channelPool.Close: for conn := range conns { conn.Close() }
PoolCloseDrain ==
  /\ Alive
  /\ kpc = "drain"
  /\ IF chanBuf # <<>>
       THEN /\ chanBuf' = Tail(chanBuf)
            /\ closedConns' = closedConns \cup {Head(chanBuf)}
            /\ UNCHANGED <<kpc, lastOp>>
       ELSE /\ kpc' = "idle"
            /\ lastOp' = [op |-> "poolClosed"]
            /\ UNCHANGED <<chanBuf, closedConns>>
  /\ UNCHANGED <<connsNil, factoryNil, chanClosed, nextConn, held, gpc>>
  /\ UNCHANGED poolVars

\* the worker pool, left as constructed
PoolIdle == PoolInit({NumWorkers}, {AllOf("fn")})

InitConn == ConnInit(0..MaxCap) /\ PoolIdle

NextConn ==
  \/ GetConns
  \/ GetSelect
  \/ GetFactory
  \/ \E p \in held : MarkUnusable(p)
  \/ \E p \in held : PoolConnClose(p)
  \/ PoolCloseLocked
  \/ PoolCloseChan
  \/ PoolCloseDrain

SpecConn == InitConn /\ [][NextConn]_vars

\* ------------------------------------------------------------------------
\* Claims
\* ------------------------------------------------------------------------
HasReturned(c) == cpc[c] \in {"idle", "after"} /\ ckind[c] # "none" /\ (cin[c] # NoVal)

\* the callers in the middle of a handshake with wrapper w
InFlight(w) == {c \in Callers : cpc[c] \in {"send", "recv"} /\ cw[c] = w}

\* C1: the worker's Job is invoked only when its most recent Ready() call
\* returned true, and a loop that left readiness polling through the break
\* (wrapper closed, Ready() false) never goes on to execute a job.
C1_JobOnlyWhenReady ==
  \A w \in Workers :
    /\ wpc[w] = "exec" => ready[w]
    /\ brokeOut[w] => wpc[w] \in Signalling \cup {"recv", "closeR", "closeO", "done"}

\* a loop broke out of polling and exited, after it had executed a job
C1_Witness ==
  \E w \in Workers : brokeOut[w] /\ wpc[w] = "done" /\ jobCount[w] = 1

\* C2: each wrapper has at most one job in flight: while one caller is in the
\* middle of a handshake with a wrapper (ready signal consumed, result not yet
\* received) no other caller is, and the wrapper offers no ready signal.
C2_OneInFlight ==
  \A w \in Workers :
    /\ Cardinality(InFlight(w)) <= 1
    /\ InFlight(w) # {} => wpc[w] \notin Signalling

\* one caller awaits the result of the only wrapper while another caller waits
\* for a ready signal
C2_Witness ==
  /\ size = 1
  /\ \E c, d \in Callers :
       /\ c # d
       /\ cpc[c] = "recv" /\ cw[c] = 1 /\ wpc[1] = "out"
       /\ cpc[d] = "select"

\* what the worker of wrapper w makes of input x
Expected(w, x) == IF wkind[w] = "fn" THEN 2 * x ELSE x

\* C3: a SendWork call that returns without error returns the worker's Job
\* applied to that call's own input (the doubling worker: x -> 2 * x; the
\* dummy workers: x -> x), whatever the other callers do.
C3_OwnResult ==
  \A c \in Callers :
    (HasReturned(c) /\ cerr[c] = "none") =>
      (cw[c] \in Pool /\ cres[c] = Expected(cw[c], cin[c]))

\* two callers of a pool of doubling workers have returned successfully,
\* served by the same wrapper
C3_Witness ==
  \E c, d \in Callers :
    /\ c # d
    /\ cw[c] \in Pool /\ wkind[cw[c]] = "fn"
    /\ HasReturned(c) /\ cerr[c] = "none"
    /\ HasReturned(d) /\ cerr[d] = "none"
    /\ cw[c] = cw[d]

HasLifecycle(w) == wkind[w] \in {"ext", "extint"}

JoinReached == lpc \in {"joinR", "joinO", "term", "mark", "closed"}

\* C9: for an extended worker Initialize is called exactly once and before
\* any Ready or Job call, Terminate is called at most once, only during the
\* manager's join phase and only when the loop has exited (so no Ready or Job
\* call follows it), and it has been called when the manager's Close returns.
C9_Lifecycle ==
  \A w \in Pool :
    HasLifecycle(w) =>
      /\ initCount[w] = (IF wpc[w] = "idle" THEN 0 ELSE 1)
      /\ termCount[w] <= 1
      /\ termCount[w] = 1 => (wpc[w] = "done" /\ JoinReached)
      /\ lpc = "closed" => termCount[w] = 1

\* the pool was closed after its extended workers had executed jobs
C9_Witness ==
  /\ lpc = "closed"
  /\ \A w \in Pool : HasLifecycle(w) /\ termCount[w] = 1 /\ initCount[w] = 1
  /\ \E w \in Pool : jobCount[w] >= 1

RECURSIVE SumTo(_, _)
SumTo(f, n) == IF n = 0 THEN 0 ELSE f[n] + SumTo(f, n - 1)

\* Job invocations over all wrappers
JobsExecuted == SumTo(jobCount, NumWorkers)

\* C4: in the round trip (K sequential SendWork calls, then Close) every call
\* returns its own result without error, and the number of Job executions
\* equals the number of returned calls whenever the caller is between calls:
\* K executions and K results once the pool is closed.
C4_RoundTrip ==
  /\ cerr[SeqCaller] = "none"
  /\ ~panicked
  /\ cpc[SeqCaller] = "idle" => JobsExecuted = ncalls[SeqCaller]
  /\ JobsExecuted <= ncalls[SeqCaller] + 1
  /\ (HasReturned(SeqCaller) /\ cpc[SeqCaller] = "idle") =>
       cres[SeqCaller] = Expected(cw[SeqCaller], cin[SeqCaller])
  /\ lpc = "closed" => (ncalls[SeqCaller] = SeqCalls /\ JobsExecuted = SeqCalls)

\* the pool is closed after its K calls
C4_Witness ==
  lpc = "closed" /\ ncalls[SeqCaller] = SeqCalls /\ JobsExecuted = SeqCalls

\* C5: with function workers and M concurrent SendWork callers on an open
\* pool, every call that was made eventually returns successfully with its
\* own result, also when M > N.
C5_AllReturn ==
  \A c \in Callers :
    (cpc[c] # "idle") ~>
      (cpc[c] = "idle" /\ cerr[c] = "none" /\ cres[c] = 2 * cin[c])

\* more callers than workers, and all of them have returned successfully
C5_Witness ==
  /\ size < NumCallers
  /\ \A c \in Callers : HasReturned(c) /\ cerr[c] = "none" /\ cw[c] \in Pool

\* C6: once the manager is marked closed (its Close has completed), a SendWork
\* call's closed-pool check is never blocked and returns the closed-pool error
\* at once: no wrapper is selected, nothing is sent on a job channel, nothing
\* panics.
C6_ClosedFailsFast ==
  /\ [](\A c \in Callers :
          (mgr = "closed" /\ cpc[c] = "check" /\ ~panicked) => ENABLED CallCheck(c))
  /\ [][\A c \in Callers :
          (mgr = "closed" /\ cpc[c] = "check" /\ cpc'[c] # "check") =>
            /\ cerr'[c] = "closed"
            /\ cpc'[c] = "idle"
            /\ cw'[c] = 0
            /\ wpc' = wpc /\ data' = data
            /\ ~panicked']_vars

\* a call made after Close had completed has returned the closed-pool error
C6_Witness ==
  /\ lpc = "closed"
  /\ \E c \in Callers : HasReturned(c) /\ cerr[c] = "closed" /\ cw[c] = 0

\* C7: a SendWorkTimed call whose deadline expired returns the timeout error
\* and no result; a result the worker produces afterwards reaches no caller
\* (every successful call holds the result of its own input); against workers
\* that never become ready, or whose Job blocks until interrupted, no
\* SendWorkTimed call returns successfully.
C7_TimeoutNoResult ==
  \A c \in Callers :
    /\ (HasReturned(c) /\ cerr[c] # "none") => cres[c] = NoVal
    /\ (HasReturned(c) /\ cerr[c] = "none") =>
         (cw[c] \in Pool /\ cres[c] = Expected(cw[c], cin[c]))
    /\ (HasReturned(c) /\ wkind[1] \in {"never", "extint"}) => cerr[c] # "none"

\* a call timed out waiting for the output of a worker blocked in Job, the
\* worker was interrupted and its late result has been discarded
C7_Witness ==
  \E c \in Callers :
    /\ HasReturned(c) /\ cerr[c] = "timeout" /\ cw[c] \in Pool
    /\ wkind[cw[c]] = "extint"
    /\ jobCount[cw[c]] >= 1 /\ intrCount[cw[c]] >= 1
    /\ drain[cw[c]] = "none" /\ wpc[cw[c]] \in Signalling

\* the async submissions that have started and not yet completed
Unresolved ==
  {c \in Callers : ckind[c] = "async" /\ cpc[c] \in {"check", "select", "send", "recv", "after"}}

\* C8: the pending-async counter is never negative and equals the number of
\* SendWorkAsync submissions that have started and not yet completed: 0 before
\* any submission, already counted when SendWorkAsync returns, and decremented
\* once per submission, also when the dispatch failed because the pool is
\* closed.
C8_PendingCount ==
  /\ pending >= 0
  /\ pending = Cardinality(Unresolved)
  /\ (\A c \in Callers : ncalls[c] = 0 /\ cpc[c] = "idle") => pending = 0

\* every submission has resolved, one of them with the closed-pool error, and
\* the counter is back at 0
C8_Witness ==
  /\ pending = 0
  /\ \A c \in Callers : ncalls[c] = 1 /\ cpc[c] = "idle" /\ ckind[c] = "async"
  /\ \E c \in Callers : cerr[c] = "closed"
  /\ \E c \in Callers : cerr[c] = "none"

\* a step in which PoolConn.Close hands a nil connection to put
PutNilStep ==
  /\ WrapConn(NilConn) \in held
  /\ WrapConn(NilConn) \notin held'
  /\ lastOp'.op = "put"
  /\ lastOp'.conn = NilConn

Pooled == {chanBuf[i] : i \in 1..Len(chanBuf)}

\* C10, as stated: returning a nil connection to the connection pool is
\* rejected with an error, the nil value is not placed in the pool (Len is
\* unchanged), and the resource is closed rather than pooled.
C10_NilClosed ==
  [][PutNilStep => /\ lastOp'.err = "nil"
                   /\ PoolLen' = PoolLen
                   /\ closedConns' # closedConns]_vars

\* C10, amended: returning a nil connection to the connection pool is
\* rejected with an error and has no other effect: the nil value is never in
\* the pool, the pool's contents and Len are unchanged, and no connection is
\* closed.
C10_NilRejected ==
  /\ [](NilConn \notin Pooled)
  /\ [][PutNilStep => /\ lastOp'.err = "nil"
                      /\ chanBuf' = chanBuf
                      /\ PoolLen' = PoolLen
                      /\ closedConns' = closedConns]_vars

C10_Witness ==
  /\ lastOp.op = "put"
  /\ lastOp.conn = NilConn
  /\ lastOp.err = "nil"
  /\ chanBuf # <<>>

\* a call of channelPool.Close has returned
ClosedDone == connsNil /\ kpc = "idle"

\* the connections the factory has created
Created == 1..(nextConn - 1)

\* the connections in the hands of the pool's users
HeldConns == {p.conn : p \in held}

\* PoolConn.Close returns the connection of p
ReturnStep(p) == p \in held /\ held' = held \ {p}

\* C11: once the connection pool's Close has completed, Len reports 0, the
\* pool holds nothing and every connection that is not in a user's hands has
\* been closed; a Get called from then on returns ErrClosed and hands out
\* nothing; a connection returned through PoolConn.Close is closed and not
\* pooled; a repeated Close changes nothing.
C11_AfterClose ==
  /\ [](ClosedDone => /\ PoolLen = 0
                      /\ chanBuf = <<>>
                      /\ \A i \in Created : i \in closedConns \/ i \in HeldConns)
  /\ [][(ClosedDone /\ gpc = "idle" /\ lastOp.op # "get" /\ lastOp'.op = "get") =>
          (lastOp'.err = "ErrClosed" /\ held' = held /\ gpc' = "idle")]_vars
  /\ [][\A p \in held :
          (ClosedDone /\ ReturnStep(p) /\ p.conn # NilConn) =>
            (p.conn \in closedConns' /\ chanBuf' = <<>>)]_vars
  /\ [][(ClosedDone /\ lastOp'.op = "poolClose") =>
          UNCHANGED <<connsNil, factoryNil, chanBuf, chanClosed, closedConns,
                      nextConn, held, gpc, kpc>>]_vars

\* Close has completed, every connection the factory ever created has been
\* closed (by Close or when it came back), and Close was called again
C11_Witness ==
  /\ ClosedDone
  /\ lastOp.op = "poolClose" /\ ~lastOp.first
  /\ Cardinality(closedConns) = MaxConns
  /\ held = {}

\* C12: Len is always between 0 and maxCap; a connection returned to an open
\* pool that is already full is closed and the pool is left as it was; a Get
\* that finds the open pool empty is never blocked: it goes on to call the
\* factory, and what it hands out is not a connection the pool had before.
C12_Bounded ==
  /\ [](PoolLen >= 0 /\ PoolLen <= MaxCap /\ Len(chanBuf) <= MaxCap)
  /\ [][\A p \in held :
          (ReturnStep(p) /\ ~p.unusable /\ p.conn # NilConn /\ ~connsNil
             /\ Len(chanBuf) = MaxCap) =>
            (chanBuf' = chanBuf /\ p.conn \in closedConns')]_vars
  /\ [](gpc = "select" => ENABLED GetSelect)
  /\ [](gpc = "factory" => ENABLED GetFactory)
  /\ [][(gpc = "select" /\ chanBuf = <<>> /\ ~chanClosed /\ gpc' # gpc) =>
          (gpc' = "factory" /\ chanBuf' = chanBuf /\ held' = held)]_vars
  /\ [][(gpc = "factory" /\ ~factoryNil /\ gpc' # gpc) =>
          /\ gpc' = "idle" /\ lastOp'.op = "get" /\ chanBuf' = chanBuf
          /\ lastOp'.err = "none" =>
               (lastOp'.conn \notin Created /\ held' = held \cup {WrapConn(lastOp'.conn)})
          /\ lastOp'.err # "none" => held' = held]_vars

\* a connection came back to a full open pool and was closed; the pool is
\* still full
C12_Witness ==
  /\ lastOp.op = "put" /\ lastOp.did = "closed"
  /\ ~connsNil
  /\ Len(chanBuf) = MaxCap
  /\ lastOp.conn \in closedConns

\* the loop of w left its first readiness polling through the break: the
\* wrapper was marked closed before Ready() had ever returned true
BrokeOutWarm(w) == wpc[w] = "sig1" /\ brokeOut[w]

\* C13: a loop that finds its wrapper marked closed while still warming up
\* exits without ever sending on the ready channel: its ready send is never
\* taken by anyone.
C13_NoReadyAfterWarmClose ==
  [][\A w \in Workers : BrokeOutWarm(w) => wpc'[w] = "sig1"]_vars

\* the loop of w has left its first readiness polling through the break and
\* has executed no job
WarmBroke(w) == brokeOut[w] /\ jobCount[w] = 0

\* C13, amended: a loop that finds its wrapper marked closed while still
\* warming up leaves the polling at that check without another Ready() call,
\* with the job channel already closed; it then sends one ready signal (taken
\* by Join or by a dispatcher), finds the job channel closed and exits; it
\* never executes a job.
C13_WarmCloseExits ==
  /\ [](\A w \in Workers :
          WarmBroke(w) => /\ wpc[w] \in {"sig1", "recv", "closeR", "closeO", "done"}
                          /\ jobClosed[w]
                          /\ poolOpen[w] = 0
                          /\ ~ready[w])
  /\ [][\A w \in Workers :
          /\ (wpc[w] = "warmChk" /\ poolOpen[w] = 0 /\ wpc'[w] # wpc[w]) =>
               (wpc'[w] = "sig1" /\ brokeOut'[w])
          /\ (BrokeOutWarm(w) /\ wpc'[w] # wpc[w]) => wpc'[w] = "recv"
          /\ (WarmBroke(w) /\ wpc[w] = "recv" /\ wpc'[w] # wpc[w]) => wpc'[w] = "closeR"
          /\ WarmBroke(w) => WarmBroke(w)']_vars

\* a loop that was closed while warming up has sent its ready signal and
\* exited without a job
C13_Witness ==
  \E w \in Workers : WarmBroke(w) /\ wpc[w] = "done" /\ lpc = "closed"

\* C14, as stated: once a result has been delivered and the wrapper is marked
\* closed, the loop makes no further Ready() call and sends no further ready
\* signal.
C14_SkipsPolling ==
  [][\A w \in Workers :
       /\ (wpc[w] = "poll" /\ poolOpen[w] = 0) => wpc'[w] \in {"poll", "recv"}
       /\ (wpc[w] = "sig2" /\ poolOpen[w] = 0) => wpc'[w] = "sig2"]_vars

\* C14, amended: after a job's result has been delivered the loop always
\* calls Ready() again, closed or not; when Ready() returns false it leaves
\* the polling if the wrapper has been marked closed and polls again
\* otherwise; after the polling it always sends one more ready signal and only
\* then receives on the job channel.
C14_PollsThenSignals ==
  [][\A w \in Workers :
       /\ (wpc[w] = "out" /\ wpc'[w] # wpc[w]) => wpc'[w] = "poll"
       /\ (wpc[w] = "poll" /\ wpc'[w] # wpc[w]) =>
            wpc'[w] = (IF ready'[w] THEN "sig2" ELSE "pollChk")
       /\ (wpc[w] = "pollChk" /\ wpc'[w] # wpc[w]) =>
            wpc'[w] = (IF poolOpen[w] = 0 THEN "sig2" ELSE "poll")
       /\ (wpc[w] = "sig2" /\ wpc'[w] # wpc[w]) => wpc'[w] = "recv"
       /\ (wpc[w] = "recv" /\ wpc'[w] # wpc[w]) => wpc'[w] \in {"exec", "closeR"}]_vars

\* a closed wrapper's loop has delivered a result, polled, left the polling
\* through the break and sent its ready signal
C14_Witness ==
  \E w \in Workers :
    wpc[w] = "recv" /\ brokeOut[w] /\ jobCount[w] >= 1 /\ poolOpen[w] = 0

\* the loop of w has left its range over the job channel
Exiting(w) == wpc[w] \in {"closeR", "closeO", "done"}

\* C15: the loop leaves its range over the job channel only from its receive
\* on that channel and only when the channel is closed; from there it closes
\* the ready channel, then the output channel, each once and each closed by
\* nobody else, and returns; whenever the loop has exited, the job channel,
\* the ready channel and the output channel are closed.
C15_ExitClosesChannels ==
  /\ [](\A w \in Workers :
          /\ Exiting(w) => jobClosed[w]
          /\ readyClosed[w] <=> wpc[w] \in {"closeO", "done"}
          /\ outputClosed[w] <=> wpc[w] = "done")
  /\ [][\A w \in Workers :
          /\ (~Exiting(w) /\ Exiting(w)') =>
               (wpc[w] = "recv" /\ jobClosed[w] /\ wpc'[w] = "closeR" /\ data'[w] = data[w])
          /\ (wpc[w] = "closeR" /\ wpc'[w] # wpc[w]) => wpc'[w] = "closeO"
          /\ (wpc[w] = "closeO" /\ wpc'[w] # wpc[w]) => wpc'[w] = "done"
          /\ wpc[w] = "done" => wpc'[w] = "done"]_vars

\* a loop has exited after executing a job, its last Ready() having returned
\* true
C15_Witness ==
  \E w \in Workers :
    /\ wpc[w] = "done" /\ jobCount[w] >= 1 /\ ~brokeOut[w]
    /\ jobClosed[w] /\ readyClosed[w] /\ outputClosed[w]

Claimed(w) == {c \in Callers : cw[c] = w /\ ckind[c] # "none"}

TimedOutOn(w) ==
  {c \in Callers : HasReturned(c) /\ cerr[c] = "timeout" /\ cw[c] = w}

\* nothing is left over from the timeouts: no late result is awaited and every
\* loop offers a ready signal or has exited
Recovered ==
  \A w \in Pool : drain[w] = "none" /\ wpc[w] \in {"sig1", "sig2", "done"}

\* C18: every SendWorkTimed call that times out on a claimed wrapper of an
\* interruptable worker has Interrupt forwarded to the worker exactly once
\* (never on an unlocked mutex), the result the worker then produces is taken
\* from the output channel and reaches no caller, the loop goes back to
\* polling and in the end offers a ready signal again (or has exited, once the
\* pool is closed), and a Close called afterwards completes, however many
\* calls timed out on the wrapper.
C18_TimeoutRecovers ==
  /\ [](/\ ~panicked
        /\ \A c \in Callers : cres[c] = NoVal
        /\ \A w \in Workers :
             /\ Cardinality(TimedOutOn(w)) =
                  intrCount[w] + (IF drain[w] = "intr" THEN 1 ELSE 0)
             /\ jobCount[w] <= intrCount[w]
             /\ (drain[w] = "none" /\ InFlight(w) = {}) =>
                  (jobCount[w] = intrCount[w] /\ wpc[w] \notin {"exec", "out"}))
  /\ <>[]Recovered
  /\ (lpc = "closeJ") ~> (lpc = "closed")

\* every call timed out on the same claimed wrapper, one after the other, and
\* the pool has been closed
C18_Witness ==
  /\ lpc = "closed"
  /\ \E w \in Pool :
       /\ Cardinality(TimedOutOn(w)) = NumCallers
       /\ intrCount[w] = NumCallers /\ jobCount[w] = NumCallers
       /\ wpc[w] = "done"

\* C19: a SendWork call that overlaps the pool's Close never sends on a job
\* channel that Close has closed: no goroutine panics, and every call that
\* has returned holds its own result or an error.
C19_NoSendOnClosed ==
  /\ ~panicked
  /\ \A c \in Callers :
       HasReturned(c) =>
         \/ cerr[c] # "none"
         \/ cw[c] \in Pool /\ cres[c] = Expected(cw[c], cin[c])

\* C20: whatever the interleaving of Get with Close, Get ends with a usable
\* connection or with an error (ErrClosed or the factory's error): it never
\* calls the factory that Close has set to nil, and what it takes from the
\* pool and hands out is never the nil connection.
C20_GetSafe ==
  lastOp.op = "get" =>
    /\ lastOp.err \in {"none", "ErrClosed", "factory"}
    /\ (lastOp.err = "none" /\ lastOp.from = "pool") => lastOp.conn # NilConn

====
